---- MODULE Spec2Model ----
(***************************************************************************)
(* Model of the admission-control and model-instance-pooling engine:       *)
(*   backend/services/model_pool.py          ModelPool, ModelPoolManager   *)
(*   backend/services/llm_service.py         LLMService                    *)
(*   backend/services/optimized_llm_service.py  OptimizedModelPool         *)
(*   backend/services/concurrency_manager.py ConcurrencyManager            *)
(*                                                                         *)
(* Time is counted in polling intervals: one tick is the 0.1 s that        *)
(* get_instance and wait_for_result sleep between two polls.               *)
(***************************************************************************)
EXTENDS Integers, Sequences, FiniteSets, TLC

(***************************************************************************)
(* Bounds of the model.                                                    *)
(***************************************************************************)
MaxCreated == 3        \* model instances ever created
MaxCalls == 4          \* get_instance calls ever made
MaxTime == 10          \* the clock stops here
MaxFineTime == 9       \* the clock stops here where it moves by single ticks
CacheSize == 2         \* max_models of the LRU cache under study
PoolSize == 1          \* max_instances of the pool under study
PoolMaxIdle == 0       \* max_idle_time (seconds) of the pool under study
MaxTasks == 3          \* requests ever submitted to the ConcurrencyManager
MaxWorkers == 2        \* max_workers of the ConcurrencyManager under study
MaxConcurrent == 1     \* max_concurrent of the ConcurrencyManager under study
QueueTimeout == 2      \* queue_timeout of the ConcurrencyManager, in ticks
HardTimeout == 5        \* hard timeout of one generation, in ticks
MaxRequests == 2       \* generate_response calls ever made, in the accounting
MaxWaits == 2          \* wait_for_result calls ever made

(***************************************************************************)
(* Program constants.                                                      *)
(***************************************************************************)
PollInterval == 1      \* time.sleep(0.1): the unit of the clock
SecondTicks == 10      \* ticks per second (1 / 0.1)
DaySeconds == 86400    \* timedelta.seconds is the seconds within the day
ManagerMaxIdle == 300  \* max_idle_time the manager gives every pool

Threads == {1, 2}                \* caller threads
SweeperId == 3                   \* the thread that runs the idle sweep
NoThread == 0
InstIds == 1..MaxCreated
NoInst == 0
Configs == {"h1", "h2"}          \* configuration fingerprints
Timeouts == {10}                 \* get_instance timeouts, in ticks (1 s)
ThePool == 1
NoPool == 0
PoolIds == {1, 2}                \* ModelPool objects ever constructed
ModelPaths == {"A"}              \* model paths asked of the LLMService
Paths == {"A", "B", "C"}         \* model paths
NoPath == ""
TaskIds == 1..MaxTasks           \* request ids, in the order of their creation
NoTask == 0
DefaultPriority == 1             \* RequestTask.priority when none is given
Priorities == {DefaultPriority, 2}   \* values of submit_request's priority argument
NoPriority == 0
WorkerIds == 1..MaxTasks         \* threads the executor could ever start
Waiters == {1}                   \* clients that call wait_for_result
WaitTimeouts == {3}              \* wait_for_result timeouts, in ticks

VARIABLES
  now,              \* the wall clock, in ticks
  inst,             \* ModelInstance objects: id -> fields
  nInst,            \* number of ModelInstance objects created so far
  instances,        \* pool -> ModelPool.instances (list of instance ids)
  available_queue,  \* pool -> ModelPool.available_queue (FIFO of instance ids)
  lock,             \* pool -> owner of ModelPool.lock (NoThread when free)
  max_idle_time,    \* pool -> ModelPool.max_idle_time
  create_model_func, \* pool -> the parameters that ModelPool.create_model_func loads with
  total_requests,   \* pool -> ModelPool.total_requests
  cache_hits,       \* pool -> ModelPool.cache_hits
  pc,               \* thread -> position in its current call
  call,             \* thread -> locals of the get_instance call in progress
  nCalls,           \* number of calls made so far
  sweep,            \* the thread running cleanup_idle_instances: its locals
  models,           \* OptimizedModelPool.models: resident instances, oldest key first
  models_lock,      \* owner of OptimizedModelPool.lock (NoThread when free)
  loading,          \* thread -> path it is loading inside get_or_load_model
  evicted,          \* thread -> what its get_or_load_model call evicted
  attempts,         \* thread -> Llama(...) invocations of its latest load
  request_queue,    \* ConcurrencyManager.request_queue (FIFO of task ids)
  active_requests,  \* ConcurrencyManager.active_requests: id -> status, "absent" if no key
  request_stats,    \* ConcurrencyManager.request_stats
  dispatcher,       \* the thread running _process_queue: position and task
  work_queue,       \* the executor's queue of submitted work items
  worker,           \* executor thread -> position and task
  idle_semaphore,   \* the executor's count of idle threads
  submitter,        \* task id -> position of the submit_request call that made it
  nTasks,           \* number of RequestTask objects created so far
  waiter,           \* client -> locals of its wait_for_result call
  returned,         \* client -> what its wait_for_result calls returned, in order
  nWaits,           \* number of wait_for_result calls made so far
  priority,         \* task id -> RequestTask.priority while the task awaits dispatch
  pending,          \* ids put on request_queue and not yet given to the executor, in put order
  pools,            \* ModelPoolManager.pools: model path -> pool (NoPool if no key)
  nPools,           \* number of ModelPool objects constructed so far
  mgr_lock,         \* owner of ModelPoolManager.lock (NoThread when free)
  request,          \* thread -> locals of its generate_response call
  generation_stats, \* service -> its _generation_stats
  gen,              \* thread -> position of its generate_response call in the accounting
  response          \* thread -> what its last generate_response call returned (<<>> if nothing yet)

poolVars == <<inst, nInst, instances, available_queue, lock, max_idle_time,
              create_model_func, total_requests, cache_hits>>
cacheVars == <<models, models_lock, loading, evicted, attempts>>
cmVars == <<request_queue, active_requests, request_stats, dispatcher, work_queue,
            worker, idle_semaphore, submitter, nTasks, waiter, returned, nWaits,
            priority, pending>>
mgrVars == <<pools, nPools, mgr_lock, request>>
poolSide == <<poolVars, pc, call, nCalls, sweep, mgrVars>>
statVars == <<generation_stats, gen, response>>
others == <<cacheVars, cmVars, mgrVars, statVars>>
vars == <<now, poolVars, pc, call, nCalls, sweep, others>>

Max(a, b) == IF a >= b THEN a ELSE b
SeqToSet(s) == {s[k] : k \in 1..Len(s)}
RemoveFirst(s, x) ==
  IF \E k \in 1..Len(s) : s[k] = x
  THEN LET k == CHOOSE j \in 1..Len(s) : s[j] = x /\ \A l \in 1..(j-1) : s[l] # x
       IN SubSeq(s, 1, k-1) \o SubSeq(s, k+1, Len(s))
  ELSE s

(***************************************************************************)
(* ModelInstance (model_pool.py:15-29).                                    *)
(***************************************************************************)
NewInstance(h, t, m) ==
  [config_hash |-> h, last_used |-> t, usage_count |-> 0, is_busy |-> TRUE,
   model |-> m]

BlankInstance ==
  [config_hash |-> "h1", last_used |-> 0, usage_count |-> 0, is_busy |-> FALSE,
   model |-> "h1"]

\* the locals that matter once get_instance has returned instance i
Returned(c, i, res) ==
  [c EXCEPT !.instance = i, !.result = res, !.timeout = 0, !.start_time = 0,
            !.wake = 0]

mark_used(r, t) == [r EXCEPT !.last_used = t, !.usage_count = @ + 1]

NoCall == [pool |-> ThePool, config_hash |-> "h1", timeout |-> 0,
           start_time |-> 0, instance |-> NoInst, wake |-> 0, result |-> "none"]

IdleSweep == [pc |-> "idle", pool |-> ThePool, current_time |-> 0,
              idle_instances |-> <<>>, temp_queue |-> <<>>]

(***************************************************************************)
(* ModelPool.get_instance (model_pool.py:48-98), one action per step that  *)
(* other threads can observe.  p is the pool the call runs on.             *)
(***************************************************************************)
max_instances(p) == PoolSize

QueueFull(p) == Len(available_queue[p]) >= max_instances(p)

\* line 50: start_time = time.time()
EnterGetInstance(t, p, h, T) ==
  /\ nCalls < MaxCalls
  /\ nCalls' = nCalls + 1
  /\ call' = [call EXCEPT ![t] = [pool |-> p, config_hash |-> h, timeout |-> T,
                                  start_time |-> now, instance |-> NoInst,
                                  wake |-> 0, result |-> "none"]]
  /\ pc' = [pc EXCEPT ![t] = "poll"]

\* the loop never looks at the timeout
LoopForever(t) == TRUE

\* line 52: while time.time() - start_time < timeout
LoopCondition(t) == now - call[t].start_time < call[t].timeout

\* lines 52-55, 69-70, 95-98: once time.sleep(0.1) is over (wake), the loop test;
\* on expiry get_instance returns None, otherwise available_queue.get_nowait(),
\* which is outside the pool lock
get_instance_poll(t) ==
  LET p == call[t].pool IN
  /\ pc[t] = "poll"
  /\ now >= call[t].wake
  /\ IF ~LoopCondition(t)
     THEN /\ pc' = [pc EXCEPT ![t] = "returned"]
          /\ call' = [call EXCEPT ![t] = Returned(@, NoInst, "timeout")]
          /\ available_queue' = available_queue
     ELSE IF available_queue[p] # <<>>
     THEN /\ call' = [call EXCEPT ![t].instance = Head(available_queue[p]),
                                  ![t].wake = 0]
          /\ available_queue' = [available_queue EXCEPT ![p] = Tail(@)]
          /\ pc' = [pc EXCEPT ![t] = "check"]
     ELSE /\ pc' = [pc EXCEPT ![t] = "create"]
          /\ call' = [call EXCEPT ![t].wake = 0]
          /\ available_queue' = available_queue
  /\ UNCHANGED <<now, inst, nInst, instances, lock, max_idle_time,
                 create_model_func,
                 total_requests, cache_hits, nCalls, sweep, others>>

\* line 58: the reuse test on the popped instance
Reusable(i, h) == inst[i].config_hash = h /\ ~inst[i].is_busy

\* lines 57-67: with self.lock: reuse the popped instance or put it back
get_instance_check(t) ==
  LET p == call[t].pool
      i == call[t].instance IN
  /\ pc[t] = "check"
  /\ lock[p] = NoThread
  /\ IF Reusable(i, call[t].config_hash)
     THEN /\ inst' = [inst EXCEPT ![i] = [mark_used(@, now) EXCEPT !.is_busy = TRUE]]
          /\ cache_hits' = [cache_hits EXCEPT ![p] = @ + 1]
          /\ total_requests' = [total_requests EXCEPT ![p] = @ + 1]
          /\ call' = [call EXCEPT ![t] = Returned(@, i, "instance")]
          /\ pc' = [pc EXCEPT ![t] = "returned"]
          /\ UNCHANGED <<available_queue, lock>>
     ELSE /\ IF ~QueueFull(p)
             THEN /\ available_queue' = [available_queue EXCEPT ![p] = Append(@, i)]
                  /\ call' = [call EXCEPT ![t].instance = NoInst]
                  /\ pc' = [pc EXCEPT ![t] = "create"]
                  /\ lock' = lock
             ELSE \* Queue.put blocks while the thread holds the pool lock
                  /\ lock' = [lock EXCEPT ![p] = t]
                  /\ pc' = [pc EXCEPT ![t] = "put_back"]
                  /\ UNCHANGED <<available_queue, call>>
          /\ UNCHANGED <<inst, cache_hits, total_requests>>
  /\ UNCHANGED <<now, nInst, instances, max_idle_time, create_model_func,
                 nCalls, sweep, others>>

\* line 67: the blocked available_queue.put(instance) goes through
get_instance_put_back(t) ==
  LET p == call[t].pool IN
  /\ pc[t] = "put_back"
  /\ ~QueueFull(p)
  /\ available_queue' = [available_queue EXCEPT ![p] = Append(@, call[t].instance)]
  /\ call' = [call EXCEPT ![t].instance = NoInst]
  /\ lock' = [lock EXCEPT ![p] = NoThread]
  /\ pc' = [pc EXCEPT ![t] = "create"]
  /\ UNCHANGED <<now, inst, nInst, instances, max_idle_time,
                 create_model_func, total_requests,
                 cache_hits, nCalls, sweep, others>>

\* the limit test off by one
UnderLimitOffByOne(p) == Len(instances[p]) <= max_instances(p)

\* line 74: if len(self.instances) < self.max_instances
UnderLimit(p) == Len(instances[p]) < max_instances(p)

\* lines 73-74, 95: with self.lock: room for a new instance? else sleep
get_instance_create(t) ==
  LET p == call[t].pool IN
  /\ pc[t] = "create"
  /\ lock[p] = NoThread
  /\ IF UnderLimit(p)
     THEN /\ nInst < MaxCreated
          /\ lock' = [lock EXCEPT ![p] = t]
          /\ pc' = [pc EXCEPT ![t] = "creating"]
          /\ call' = call
     ELSE \* line 95: time.sleep(0.1)
          /\ pc' = [pc EXCEPT ![t] = "poll"]
          /\ call' = [call EXCEPT ![t].wake = now + PollInterval]
          /\ lock' = lock
  /\ UNCHANGED <<now, inst, nInst, instances, available_queue, max_idle_time,
                 create_model_func,
                 total_requests, cache_hits, nCalls, sweep, others>>

\* the new instance is handed out and also left idle in the available queue
get_instance_created_idle(t) ==
  LET p == call[t].pool
      i == nInst + 1 IN
  /\ pc[t] = "creating"
  /\ nInst' = i
  /\ inst' = [inst EXCEPT ![i] = [NewInstance(call[t].config_hash, now, create_model_func[p])
                                    EXCEPT !.is_busy = FALSE]]
  /\ instances' = [instances EXCEPT ![p] = Append(@, i)]
  /\ available_queue' = [available_queue EXCEPT ![p] = Append(@, i)]
  /\ total_requests' = [total_requests EXCEPT ![p] = @ + 1]
  /\ lock' = [lock EXCEPT ![p] = NoThread]
  /\ call' = [call EXCEPT ![t] = Returned(@, i, "instance")]
  /\ pc' = [pc EXCEPT ![t] = "returned"]
  /\ UNCHANGED <<now, max_idle_time, create_model_func, cache_hits, nCalls,
                 sweep, others>>

\* lines 76-88: create_model_func() returned; the new busy instance is handed out
get_instance_created(t) ==
  LET p == call[t].pool
      i == nInst + 1 IN
  /\ pc[t] = "creating"
  /\ nInst' = i
  /\ inst' = [inst EXCEPT ![i] = NewInstance(call[t].config_hash, now, create_model_func[p])]
  /\ instances' = [instances EXCEPT ![p] = Append(@, i)]
  /\ total_requests' = [total_requests EXCEPT ![p] = @ + 1]
  /\ lock' = [lock EXCEPT ![p] = NoThread]
  /\ call' = [call EXCEPT ![t] = Returned(@, i, "instance")]
  /\ pc' = [pc EXCEPT ![t] = "returned"]
  /\ UNCHANGED <<now, available_queue, max_idle_time, create_model_func,
                 cache_hits, nCalls, sweep, others>>

\* lines 90-92: create_model_func() raised; get_instance returns None
get_instance_create_failed(t) ==
  LET p == call[t].pool IN
  /\ pc[t] = "creating"
  /\ lock' = [lock EXCEPT ![p] = NoThread]
  /\ call' = [call EXCEPT ![t] = Returned(@, NoInst, "create_failed")]
  /\ pc' = [pc EXCEPT ![t] = "returned"]
  /\ UNCHANGED <<now, inst, nInst, instances, available_queue, max_idle_time,
                 create_model_func,
                 total_requests, cache_hits, nCalls, sweep, others>>

(***************************************************************************)
(* ModelPool.return_instance (model_pool.py:100-105) on pool p.            *)
(***************************************************************************)
ReturnInstance(t, p, done) ==
  LET i == call[t].instance IN
  /\ lock[p] = NoThread
  /\ inst' = [inst EXCEPT ![i].is_busy = FALSE]
  /\ IF ~QueueFull(p)
     THEN /\ available_queue' = [available_queue EXCEPT ![p] = Append(@, i)]
          /\ pc' = [pc EXCEPT ![t] = done]
          /\ call' = [call EXCEPT ![t] = NoCall]
          /\ lock' = lock
     ELSE \* Queue.put blocks while the thread holds the pool lock
          /\ lock' = [lock EXCEPT ![p] = t]
          /\ pc' = [pc EXCEPT ![t] = "return_put"]
          /\ call' = [call EXCEPT ![t].pool = p]
          /\ available_queue' = available_queue

\* a caller that holds an instance gives it back to the pool it came from
return_instance(t) ==
  /\ pc[t] = "returned"
  /\ call[t].instance # NoInst
  /\ ReturnInstance(t, call[t].pool, "idle")
  /\ UNCHANGED <<now, nInst, instances, max_idle_time, create_model_func,
                 total_requests,
                 cache_hits, nCalls, sweep, others>>

\* line 104: the blocked available_queue.put(instance) goes through
return_instance_put(t) ==
  LET p == call[t].pool IN
  /\ pc[t] = "return_put"
  /\ ~QueueFull(p)
  /\ available_queue' = [available_queue EXCEPT ![p] = Append(@, call[t].instance)]
  /\ call' = [call EXCEPT ![t] = NoCall]
  /\ lock' = [lock EXCEPT ![p] = NoThread]
  /\ pc' = [pc EXCEPT ![t] = "idle"]
  /\ UNCHANGED <<now, inst, nInst, instances, max_idle_time,
                 create_model_func, total_requests,
                 cache_hits, nCalls, sweep, others>>

\* a caller of the bare pool: get_instance(config_hash, timeout), timeout in Ts
get_instance_call(t, Ts) ==
  /\ pc[t] = "idle"
  /\ \E h \in Configs, T \in Ts : EnterGetInstance(t, ThePool, h, T)
  /\ UNCHANGED <<now, poolVars, sweep, others>>

\* get_instance returned None: the caller has nothing to give back
caller_gives_up(t) ==
  /\ pc[t] = "returned"
  /\ call[t].instance = NoInst
  /\ pc' = [pc EXCEPT ![t] = "idle"]
  /\ call' = [call EXCEPT ![t] = NoCall]
  /\ UNCHANGED <<now, poolVars, nCalls, sweep, others>>

(***************************************************************************)
(* ModelPool.cleanup_idle_instances (model_pool.py:107-137).  The sweep    *)
(* holds the pool lock from line 111 on; get_nowait calls of get_instance  *)
(* do not take that lock and interleave with the drain loop.               *)
(***************************************************************************)
\* timedelta.seconds of a difference of d ticks: the whole seconds within the day
TimedeltaSeconds(d) == (d \div SecondTicks) % DaySeconds

\* lines 114-115: the filter of the list comprehension
IsIdle(i, current_time, p) ==
  /\ ~inst[i].is_busy
  /\ TimedeltaSeconds(current_time - inst[i].last_used) > max_idle_time[p]

SelectIdle(p, current_time) ==
  LET Test(i) == IsIdle(i, current_time, p) IN SelectSeq(instances[p], Test)

\* line 109: current_time = datetime.now(), read before the lock is taken
cleanup_start(p) ==
  /\ sweep.pc = "idle"
  /\ sweep' = [sweep EXCEPT !.pc = "lock", !.pool = p, !.current_time = now]
  /\ UNCHANGED <<now, poolVars, pc, call, nCalls, others>>

\* lines 111-116: with self.lock: idle_instances = [...]
cleanup_lock ==
  LET p == sweep.pool
      idle == SelectIdle(p, sweep.current_time) IN
  /\ sweep.pc = "lock"
  /\ lock[p] = NoThread
  /\ IF idle = <<>>
     THEN /\ sweep' = IdleSweep
          /\ lock' = lock
     ELSE /\ sweep' = [sweep EXCEPT !.pc = "drain", !.idle_instances = idle,
                                    !.temp_queue = <<>>, !.current_time = 0]
          /\ lock' = [lock EXCEPT ![p] = SweeperId]
  /\ UNCHANGED <<now, inst, nInst, instances, available_queue, max_idle_time,
                 create_model_func,
                 total_requests, cache_hits, pc, call, nCalls, others>>

\* the for loop of line 118 moves on to the next idle instance, or the sweep ends
NextIdle(sw) ==
  IF Len(sw.idle_instances) > 1
  THEN [sw EXCEPT !.pc = "drain", !.idle_instances = Tail(@), !.temp_queue = <<>>]
  ELSE IdleSweep

ReleaseAfter(sw, p) ==
  IF Len(sw.idle_instances) > 1 THEN lock ELSE [lock EXCEPT ![p] = NoThread]

\* line 122: while not self.available_queue.empty()
cleanup_drain_test ==
  LET p == sweep.pool IN
  /\ sweep.pc = "drain"
  /\ sweep' = [sweep EXCEPT !.pc = IF available_queue[p] = <<>>
                                    THEN "refill" ELSE "drain_get"]
  /\ UNCHANGED <<now, poolVars, pc, call, nCalls, others>>

\* lines 123-125: item = get_nowait(); a get_instance that emptied the queue
\* since the test makes it raise Empty, which lines 136-137 swallow
cleanup_drain_get ==
  LET p == sweep.pool
      q == available_queue[p] IN
  /\ sweep.pc = "drain_get"
  /\ IF q = <<>>
     THEN /\ sweep' = NextIdle(sweep)
          /\ lock' = ReleaseAfter(sweep, p)
          /\ available_queue' = available_queue
     ELSE /\ sweep' = [sweep EXCEPT !.pc = "drain",
                         !.temp_queue = IF Head(q) # Head(sweep.idle_instances)
                                        THEN Append(@, Head(q)) ELSE @]
          /\ available_queue' = [available_queue EXCEPT ![p] = Tail(q)]
          /\ lock' = lock
  /\ UNCHANGED <<now, inst, nInst, instances, max_idle_time,
                 create_model_func, total_requests,
                 cache_hits, pc, call, nCalls, others>>

\* lines 128-132: put the other items back, self.instances.remove(instance)
cleanup_remove ==
  LET p == sweep.pool IN
  /\ sweep.pc = "refill"
  /\ available_queue' = [available_queue EXCEPT ![p] = @ \o sweep.temp_queue]
  /\ instances' = [instances EXCEPT ![p] = RemoveFirst(@, Head(sweep.idle_instances))]
  /\ sweep' = NextIdle(sweep)
  /\ lock' = ReleaseAfter(sweep, p)
  /\ UNCHANGED <<now, inst, nInst, max_idle_time, create_model_func,
                 total_requests, cache_hits,
                 pc, call, nCalls, others>>

cleanup_idle_instances ==
  \/ cleanup_lock
  \/ cleanup_drain_test
  \/ cleanup_drain_get
  \/ cleanup_remove

(***************************************************************************)
(* The clock.                                                              *)
(***************************************************************************)
Tick(d) ==
  /\ now + d <= MaxTime
  /\ now' = now + d
  /\ UNCHANGED <<poolVars, pc, call, nCalls, sweep, others>>

TickFine ==
  /\ now < MaxFineTime
  /\ Tick(PollInterval)

(***************************************************************************)
(* OptimizedModelPool (optimized_llm_service.py:33-180): the LRU cache.    *)
(* get_or_load_model holds self.lock from its first line to its return,    *)
(* the loader call included.                                               *)
(***************************************************************************)
max_models == CacheSize

ResidentPaths == {models[k].path : k \in 1..Len(models)}

IndexOf(path) == CHOOSE k \in 1..Len(models) : models[k].path = path

\* OptimizedModelInstance.__init__ (lines 20-25)
OptimizedModelInstance(path, t) == [path |-> path, usage_count |-> 0, last_used |-> t]

\* OptimizedModelInstance.update_usage (lines 27-31)
update_usage(r, t) == [r EXCEPT !.usage_count = @ + 1, !.last_used = t]

\* evicts the entry that was inserted first, whatever its last_used
OldestInserted == CHOOSE k \in 1..Len(models) : \A j \in 1..Len(models) : k <= j

\* lines 144-145: min(self.models.keys(), key=last_used): the first key, in
\* insertion order, among those with the smallest last_used
LruIndex ==
  CHOOSE k \in 1..Len(models) :
    /\ \A j \in 1..Len(models) : models[k].last_used <= models[j].last_used
    /\ \A j \in 1..(k-1) : models[j].last_used > models[k].last_used

RemoveAt(seq, k) == SubSeq(seq, 1, k-1) \o SubSeq(seq, k+1, Len(seq))

\* the capacity test off by one
AboveCapacity == Len(models) > max_models

\* line 51: if len(self.models) >= self.max_models
AtCapacity == Len(models) >= max_models

\* lines 44-52: the call up to the loader: a hit returns at once; a miss evicts
\* when the cache is at capacity and goes on to load, holding the lock
get_or_load_model(t, path) ==
  /\ loading[t] = NoPath
  /\ models_lock = NoThread
  /\ nCalls < MaxCalls
  /\ nCalls' = nCalls + 1
  /\ IF path \in ResidentPaths
     THEN /\ models' = [models EXCEPT ![IndexOf(path)] = update_usage(@, now)]
          /\ evicted' = [evicted EXCEPT ![t] = NoPath]
          /\ UNCHANGED <<models_lock, loading, attempts>>
     ELSE /\ models_lock' = t
          /\ loading' = [loading EXCEPT ![t] = path]
          /\ attempts' = [attempts EXCEPT ![t] = 0]
          /\ IF AtCapacity /\ models # <<>>
             THEN /\ models' = RemoveAt(models, LruIndex)
                  /\ evicted' = [evicted EXCEPT ![t] = models[LruIndex].path]
             ELSE /\ models' = models
                  /\ evicted' = [evicted EXCEPT ![t] = NoPath]
  /\ UNCHANGED <<now, poolVars, pc, call, sweep, cmVars, mgrVars, statVars>>

\* _create_optimized_model line 66: os.path.getsize(model_path) raises for a
\* file that cannot be read, before any Llama(...) call; the error leaves
\* get_or_load_model
size_unreadable(t) ==
  /\ loading[t] # NoPath
  /\ attempts[t] = 0
  /\ loading' = [loading EXCEPT ![t] = NoPath]
  /\ evicted' = [evicted EXCEPT ![t] = NoPath]
  /\ models_lock' = NoThread
  /\ UNCHANGED <<now, poolVars, pc, call, nCalls, sweep, models, attempts,
                 cmVars, mgrVars, statVars>>

\* lines 107-110 with the first except clause taken at once as the last one:
\* the error of the size-tiered attempt leaves the call
first_attempt_fatal(t) ==
  /\ loading[t] # NoPath
  /\ attempts[t] = 0
  /\ attempts' = [attempts EXCEPT ![t] = 1]
  /\ loading' = [loading EXCEPT ![t] = NoPath]
  /\ evicted' = [evicted EXCEPT ![t] = NoPath]
  /\ models_lock' = NoThread
  /\ UNCHANGED <<now, poolVars, pc, call, nCalls, sweep, models, cmVars,
                 mgrVars, statVars>>

\* lines 107-131: Llama(**model_params) raised; the except clause builds the
\* minimal fallback parameters and the call goes on to the second attempt
first_attempt_failed(t) ==
  /\ loading[t] # NoPath
  /\ attempts[t] = 0
  /\ attempts' = [attempts EXCEPT ![t] = 1]
  /\ UNCHANGED <<now, poolVars, pc, call, nCalls, sweep, models, models_lock,
                 loading, evicted, cmVars, mgrVars, statVars>>

\* lines 55-61 after line 108 or line 134: Llama(...) returned a model at the
\* first or at the fallback attempt; the new instance is stored and returned
model_loaded(t) ==
  /\ loading[t] # NoPath
  /\ attempts[t] < 2
  /\ attempts' = [attempts EXCEPT ![t] = @ + 1]
  /\ models' = Append(models, OptimizedModelInstance(loading[t], now))
  /\ loading' = [loading EXCEPT ![t] = NoPath]
  /\ evicted' = [evicted EXCEPT ![t] = NoPath]
  /\ models_lock' = NoThread
  /\ UNCHANGED <<now, poolVars, pc, call, nCalls, sweep, cmVars, mgrVars,
                 statVars>>

\* lines 133-137: Llama(**fallback_params) raised too; the error leaves the
\* call
model_load_failed(t) ==
  /\ loading[t] # NoPath
  /\ attempts[t] = 1
  /\ attempts' = [attempts EXCEPT ![t] = 2]
  /\ loading' = [loading EXCEPT ![t] = NoPath]
  /\ evicted' = [evicted EXCEPT ![t] = NoPath]
  /\ models_lock' = NoThread
  /\ UNCHANGED <<now, poolVars, pc, call, nCalls, sweep, models, cmVars,
                 mgrVars, statVars>>

\* OptimizedModelPool.clear_all (lines 157-164)
clear_all ==
  /\ models_lock = NoThread
  /\ models # <<>>
  /\ models' = <<>>
  /\ UNCHANGED <<now, poolVars, pc, call, nCalls, sweep, models_lock, loading,
                 evicted, attempts, cmVars, mgrVars, statVars>>

InitCache ==
  /\ models = <<>>
  /\ models_lock = NoThread
  /\ loading = [t \in Threads |-> NoPath]
  /\ evicted = [t \in Threads |-> NoPath]
  /\ attempts = [t \in Threads |-> 0]

(***************************************************************************)
(* ConcurrencyManager (concurrency_manager.py:32-256).  Each with-block on *)
(* stats_lock or active_lock is one step; nothing blocks inside them.      *)
(***************************************************************************)
max_workers == MaxWorkers
max_concurrent == MaxConcurrent
queue_timeout == QueueTimeout

\* line 49: Queue(maxsize=self.max_concurrent * 2)
QueueMaxsize == max_concurrent * 2

NoSubmit == [pc |-> "none", start_time |-> 0]
IdleDispatcher == [pc |-> "get", task |-> NoTask]
Unborn == [pc |-> "unborn", task |-> NoTask, ok |-> TRUE]
IdleWorker == [pc |-> "idle", task |-> NoTask, ok |-> TRUE]
NoWait == [pc |-> "idle", id |-> NoTask, timeout |-> 0, start_time |-> 0, wake |-> 0]

\* lines 51-57
InitStats == [total_requests |-> 0, completed_requests |-> 0, failed_requests |-> 0,
              queued_requests |-> 0, active_requests |-> 0]

\* lines 75-93: a new task with a fresh id; request_queue.put(task, timeout) begins
submit_request(i, p) ==
  /\ i = nTasks + 1
  /\ i \in TaskIds
  /\ nTasks' = i
  /\ submitter' = [submitter EXCEPT ![i] = [pc |-> "put", start_time |-> now]]
  /\ priority' = [priority EXCEPT ![i] = p]
  /\ UNCHANGED <<now, poolSide, cacheVars, statVars, pending, request_queue,
                 active_requests,
                 request_stats, dispatcher, work_queue, worker, idle_semaphore,
                 waiter, returned, nWaits>>

\* line 93: the put goes through
submit_put(i) ==
  /\ submitter[i].pc = "put"
  /\ Len(request_queue) < QueueMaxsize
  /\ request_queue' = Append(request_queue, i)
  /\ pending' = Append(pending, i)
  /\ submitter' = [submitter EXCEPT ![i] = [pc |-> "stats", start_time |-> 0]]
  /\ UNCHANGED <<now, poolSide, cacheVars, statVars, priority,
                 active_requests, request_stats,
                 dispatcher, work_queue, worker, idle_semaphore, nTasks, waiter,
                 returned, nWaits>>

\* lines 95-100: the counters, then the id goes back to the caller
submit_stats(i) ==
  /\ submitter[i].pc = "stats"
  /\ request_stats' = [request_stats EXCEPT !.total_requests = @ + 1,
                                            !.queued_requests = @ + 1]
  /\ submitter' = [submitter EXCEPT ![i].pc = "queued"]
  /\ UNCHANGED <<now, poolSide, cacheVars, statVars, priority, pending,
                 request_queue, active_requests,
                 dispatcher, work_queue, worker, idle_semaphore, nTasks, waiter,
                 returned, nWaits>>

\* the rejected request is counted like an accepted one
submit_full_counted(i) ==
  /\ submitter[i].pc = "put"
  /\ Len(request_queue) >= QueueMaxsize
  /\ now - submitter[i].start_time >= queue_timeout
  /\ request_stats' = [request_stats EXCEPT !.failed_requests = @ + 1,
                                            !.total_requests = @ + 1]
  /\ submitter' = [submitter EXCEPT ![i] = [pc |-> "rejected", start_time |-> 0]]
  /\ priority' = [priority EXCEPT ![i] = NoPriority]
  /\ UNCHANGED <<now, poolSide, cacheVars, statVars, pending, request_queue,
                 active_requests,
                 dispatcher, work_queue, worker, idle_semaphore, nTasks, waiter,
                 returned, nWaits>>

\* lines 93, 102-106: the queue stayed full for queue_timeout; Full is raised
submit_full(i) ==
  /\ submitter[i].pc = "put"
  /\ Len(request_queue) >= QueueMaxsize
  /\ now - submitter[i].start_time >= queue_timeout
  /\ request_stats' = [request_stats EXCEPT !.failed_requests = @ + 1]
  /\ submitter' = [submitter EXCEPT ![i] = [pc |-> "rejected", start_time |-> 0]]
  /\ priority' = [priority EXCEPT ![i] = NoPriority]
  /\ UNCHANGED <<now, poolSide, cacheVars, statVars, pending, request_queue,
                 active_requests,
                 dispatcher, work_queue, worker, idle_semaphore, nTasks, waiter,
                 returned, nWaits>>

\* lines 108-119
get_request_status(id) ==
  IF active_requests[id] # "absent" THEN active_requests[id] ELSE "not_found"

\* the queue hands out the waiting task of the highest priority
process_queue_get_by_priority ==
  LET q == request_queue
      k == CHOOSE n \in 1..Len(q) :
             /\ \A j \in 1..Len(q) : priority[q[j]] <= priority[q[n]]
             /\ \A j \in 1..(n-1) : priority[q[j]] < priority[q[n]]
  IN
  /\ dispatcher.pc = "get"
  /\ request_queue # <<>>
  /\ dispatcher' = [pc |-> "stats", task |-> q[k]]
  /\ request_queue' = RemoveFirst(q, q[k])
  /\ UNCHANGED <<now, poolSide, cacheVars, statVars, priority, pending,
                 active_requests,
                 request_stats, work_queue, worker, idle_semaphore, submitter,
                 nTasks, waiter, returned, nWaits>>

\* line 162: task = self.request_queue.get(timeout=1.0): the head of the queue
process_queue_get ==
  /\ dispatcher.pc = "get"
  /\ request_queue # <<>>
  /\ dispatcher' = [pc |-> "stats", task |-> Head(request_queue)]
  /\ request_queue' = Tail(request_queue)
  /\ UNCHANGED <<now, poolSide, cacheVars, statVars, priority, pending,
                 active_requests, request_stats,
                 work_queue, worker, idle_semaphore, submitter, nTasks, waiter,
                 returned, nWaits>>

\* lines 165-167
process_queue_stats ==
  /\ dispatcher.pc = "stats"
  /\ request_stats' = [request_stats EXCEPT !.queued_requests = @ - 1,
                                            !.active_requests = @ + 1]
  /\ dispatcher' = [dispatcher EXCEPT !.pc = "mark"]
  /\ UNCHANGED <<now, poolSide, cacheVars, statVars, priority, pending,
                 request_queue, active_requests,
                 work_queue, worker, idle_semaphore, submitter, nTasks, waiter,
                 returned, nWaits>>

\* lines 181-186: the entry appears with status 'running'
process_task_mark ==
  /\ dispatcher.pc = "mark"
  /\ active_requests' = [active_requests EXCEPT ![dispatcher.task] = "running"]
  /\ dispatcher' = [dispatcher EXCEPT !.pc = "submit"]
  /\ UNCHANGED <<now, poolSide, cacheVars, statVars, priority, pending,
                 request_queue, request_stats,
                 work_queue, worker, idle_semaphore, submitter, nTasks, waiter,
                 returned, nWaits>>

NumThreads == Cardinality({w \in WorkerIds : worker[w].pc # "unborn"})

\* the executor starts a thread for every submission
CanSpawnAlways == TRUE

\* lines 43-46: ThreadPoolExecutor(max_workers): a new thread only below the limit
CanSpawn == NumThreads < max_workers

\* the work item is queued but the executor never starts a thread for it
process_task_submit_no_thread ==
  /\ dispatcher.pc = "submit"
  /\ work_queue' = Append(work_queue, dispatcher.task)
  /\ dispatcher' = IdleDispatcher
  /\ pending' = RemoveFirst(pending, dispatcher.task)
  /\ priority' = [priority EXCEPT ![dispatcher.task] = NoPriority]
  /\ UNCHANGED <<now, poolSide, cacheVars, statVars, request_queue,
                 active_requests, worker, idle_semaphore,
                 request_stats, submitter, nTasks, waiter, returned, nWaits>>

\* line 227: self.executor.submit(execute_task): the work item is queued; the
\* executor starts a thread if no thread is idle and the limit allows one
process_task_submit ==
  /\ dispatcher.pc = "submit"
  /\ work_queue' = Append(work_queue, dispatcher.task)
  /\ dispatcher' = IdleDispatcher
  /\ pending' = RemoveFirst(pending, dispatcher.task)
  /\ priority' = [priority EXCEPT ![dispatcher.task] = NoPriority]
  /\ IF idle_semaphore > 0
     THEN /\ idle_semaphore' = idle_semaphore - 1
          /\ worker' = worker
     ELSE /\ idle_semaphore' = idle_semaphore
          /\ IF CanSpawn /\ \E w \in WorkerIds : worker[w].pc = "unborn"
             THEN LET w == CHOOSE v \in WorkerIds :
                             /\ worker[v].pc = "unborn"
                             /\ \A u \in WorkerIds : worker[u].pc = "unborn" => v <= u
                  IN worker' = [worker EXCEPT ![w] = IdleWorker]
             ELSE worker' = worker
  /\ UNCHANGED <<now, poolSide, cacheVars, statVars, request_queue,
                 active_requests,
                 request_stats, submitter, nTasks, waiter, returned, nWaits>>

\* lines 188-190: an executor thread takes the next work item and runs it
execute_start(w) ==
  /\ worker[w].pc = "idle"
  /\ work_queue # <<>>
  /\ worker' = [worker EXCEPT ![w] = [pc |-> "run", task |-> Head(work_queue),
                                      ok |-> TRUE]]
  /\ work_queue' = Tail(work_queue)
  /\ UNCHANGED <<now, poolSide, cacheVars, statVars, priority, pending,
                 request_queue, active_requests,
                 request_stats, dispatcher, idle_semaphore, submitter, nTasks,
                 waiter, returned, nWaits>>

\* line 193: task.function returns (ok) or raises
execute_return(w, ok) ==
  /\ worker[w].pc = "run"
  /\ worker' = [worker EXCEPT ![w].pc = "mark", ![w].ok = ok]
  /\ UNCHANGED <<now, poolSide, cacheVars, statVars, priority, pending,
                 request_queue, active_requests,
                 request_stats, dispatcher, work_queue, idle_semaphore,
                 submitter, nTasks, waiter, returned, nWaits>>

\* the terminal status is written whether or not the entry is still there
execute_mark_unguarded(w) ==
  LET id == worker[w].task IN
  /\ worker[w].pc = "mark"
  /\ active_requests' = [active_requests EXCEPT ![id] = IF worker[w].ok THEN "completed"
                                                                      ELSE "failed"]
  /\ worker' = [worker EXCEPT ![w].pc = "stats"]
  /\ UNCHANGED <<now, poolSide, cacheVars, statVars, priority, pending,
                 request_queue, request_stats,
                 dispatcher, work_queue, idle_semaphore, submitter, nTasks,
                 waiter, returned, nWaits>>

\* lines 196-202, 214-220: the entry, if still there, gets its terminal status
execute_mark(w) ==
  LET id == worker[w].task IN
  /\ worker[w].pc = "mark"
  /\ active_requests' =
       IF active_requests[id] # "absent"
       THEN [active_requests EXCEPT ![id] = IF worker[w].ok THEN "completed"
                                                            ELSE "failed"]
       ELSE active_requests
  /\ worker' = [worker EXCEPT ![w].pc = "stats"]
  /\ UNCHANGED <<now, poolSide, cacheVars, statVars, priority, pending,
                 request_queue, request_stats,
                 dispatcher, work_queue, idle_semaphore, submitter, nTasks,
                 waiter, returned, nWaits>>

\* every finished task is counted as completed
execute_stats_completed(w) ==
  /\ worker[w].pc = "stats"
  /\ request_stats' = [request_stats EXCEPT !.completed_requests = @ + 1,
                                            !.active_requests = @ - 1]
  /\ worker' = [worker EXCEPT ![w] = IdleWorker]
  /\ idle_semaphore' = idle_semaphore + 1
  /\ UNCHANGED <<now, poolSide, cacheVars, statVars, priority, pending,
                 request_queue, active_requests,
                 dispatcher, work_queue, submitter, nTasks, waiter, returned,
                 nWaits>>

\* lines 204-206, 222-224: the counters; the thread is idle again
execute_stats(w) ==
  /\ worker[w].pc = "stats"
  /\ request_stats' =
       IF worker[w].ok
       THEN [request_stats EXCEPT !.completed_requests = @ + 1,
                                  !.active_requests = @ - 1]
       ELSE [request_stats EXCEPT !.failed_requests = @ + 1,
                                  !.active_requests = @ - 1]
  /\ worker' = [worker EXCEPT ![w] = IdleWorker]
  /\ idle_semaphore' = idle_semaphore + 1
  /\ UNCHANGED <<now, poolSide, cacheVars, statVars, priority, pending,
                 request_queue, active_requests,
                 dispatcher, work_queue, submitter, nTasks, waiter, returned,
                 nWaits>>

\* lines 123-126: a client waits for the id that submit_request gave it
wait_for_result(c, id, T) ==
  /\ waiter[c].pc = "idle"
  /\ submitter[id].pc = "queued"
  /\ nWaits < MaxWaits
  /\ nWaits' = nWaits + 1
  /\ waiter' = [waiter EXCEPT ![c] = [pc |-> "poll", id |-> id, timeout |-> T,
                                      start_time |-> now, wake |-> 0]]
  /\ UNCHANGED <<now, poolSide, cacheVars, statVars, priority, pending,
                 request_queue, active_requests,
                 request_stats, dispatcher, work_queue, worker, idle_semaphore,
                 submitter, nTasks, returned>>

Outcome(c, what) == Append(returned[c], [id |-> waiter[c].id, outcome |-> what])

\* after the timeout the entry is left in the table
wait_poll_keeps_entry(c) ==
  LET id == waiter[c].id IN
  /\ waiter[c].pc = "poll"
  /\ now >= waiter[c].wake
  /\ IF now - waiter[c].start_time < waiter[c].timeout
     THEN IF active_requests[id] \in {"completed", "failed"}
          THEN /\ returned' = [returned EXCEPT ![c] = Outcome(c, active_requests[id])]
               /\ active_requests' = [active_requests EXCEPT ![id] = "absent"]
               /\ waiter' = [waiter EXCEPT ![c] = NoWait]
          ELSE /\ waiter' = [waiter EXCEPT ![c].wake = now + PollInterval]
               /\ UNCHANGED <<returned, active_requests>>
     ELSE /\ returned' = [returned EXCEPT ![c] = Outcome(c, "timeout")]
          /\ active_requests' = active_requests
          /\ waiter' = [waiter EXCEPT ![c] = NoWait]
  /\ UNCHANGED <<now, poolSide, cacheVars, statVars, priority, pending,
                 request_queue, request_stats,
                 dispatcher, work_queue, worker, idle_semaphore, submitter,
                 nTasks, nWaits>>

\* lines 128-153: one round of the loop once asyncio.sleep(0.1) is over: a
\* terminal entry is deleted and its result returned (or its error raised);
\* after the timeout the entry is deleted and TimeoutError raised
wait_poll(c) ==
  LET id == waiter[c].id IN
  /\ waiter[c].pc = "poll"
  /\ now >= waiter[c].wake
  /\ IF now - waiter[c].start_time < waiter[c].timeout
     THEN IF active_requests[id] \in {"completed", "failed"}
          THEN /\ returned' = [returned EXCEPT ![c] = Outcome(c, active_requests[id])]
               /\ active_requests' = [active_requests EXCEPT ![id] = "absent"]
               /\ waiter' = [waiter EXCEPT ![c] = NoWait]
          ELSE /\ waiter' = [waiter EXCEPT ![c].wake = now + PollInterval]
               /\ UNCHANGED <<returned, active_requests>>
     ELSE /\ returned' = [returned EXCEPT ![c] = Outcome(c, "timeout")]
          /\ active_requests' = [active_requests EXCEPT ![id] = "absent"]
          /\ waiter' = [waiter EXCEPT ![c] = NoWait]
  /\ UNCHANGED <<now, poolSide, cacheVars, statVars, priority, pending,
                 request_queue, request_stats,
                 dispatcher, work_queue, worker, idle_semaphore, submitter,
                 nTasks, nWaits>>

\* the clock as the ConcurrencyManager observes it: it is read while a put is
\* blocked on the full queue and inside wait_for_result only
TickObserved ==
  /\ \/ \E i \in TaskIds : submitter[i].pc = "put" /\ Len(request_queue) >= QueueMaxsize
     \/ \E c \in Waiters : waiter[c].pc = "poll"
  /\ TickFine

InitCM ==
  /\ request_queue = <<>>
  /\ active_requests = [i \in TaskIds |-> "absent"]
  /\ request_stats = InitStats
  /\ dispatcher = IdleDispatcher
  /\ work_queue = <<>>
  /\ worker = [w \in WorkerIds |-> Unborn]
  /\ idle_semaphore = 0
  /\ submitter = [i \in TaskIds |-> NoSubmit]
  /\ nTasks = 0
  /\ waiter = [c \in Waiters |-> NoWait]
  /\ returned = [c \in Waiters |-> <<>>]
  /\ nWaits = 0
  /\ priority = [i \in TaskIds |-> NoPriority]
  /\ pending = <<>>

(***************************************************************************)
(* ModelPoolManager (model_pool.py:155-244) and LLMService                 *)
(* (llm_service.py:72-141).  The manager's lock is held over the blocks of *)
(* lines 180-191, 197-199, 207-209 and 242-243.                            *)
(***************************************************************************)
NoRequest == [model_path |-> NoPath]

\* lines 182-191: the pool of model_path, made on first use
PoolOf(path) == IF pools[path] # NoPool THEN pools[path] ELSE nPools + 1

\* llm_service.py:93-98 and model_pool.py:178-193: generate_response asks the
\* manager for an instance; pool.get_instance runs outside the manager's lock
generate_response(t, path, h) ==
  LET p == PoolOf(path) IN
  /\ pc[t] = "idle"
  /\ mgr_lock = NoThread
  /\ p \in PoolIds
  /\ pools' = [pools EXCEPT ![path] = p]
  /\ nPools' = IF pools[path] # NoPool THEN nPools ELSE p
  /\ max_idle_time' = IF pools[path] # NoPool THEN max_idle_time
                      ELSE [max_idle_time EXCEPT ![p] = ManagerMaxIdle]
  /\ create_model_func' = IF pools[path] # NoPool THEN create_model_func
                          ELSE [create_model_func EXCEPT ![p] = h]
  /\ EnterGetInstance(t, p, h, queue_timeout)
  /\ request' = [request EXCEPT ![t] = [model_path |-> path]]
  /\ UNCHANGED <<now, inst, nInst, instances, available_queue, lock,
                 total_requests, cache_hits, sweep, mgr_lock, cacheVars,
                 cmVars, statVars>>

\* llm_service.py:100-101, 126-134: no instance; the error result is returned
generate_response_failed(t) ==
  /\ pc[t] = "returned"
  /\ call[t].instance = NoInst
  /\ pc' = [pc EXCEPT ![t] = "idle"]
  /\ call' = [call EXCEPT ![t] = NoCall]
  /\ request' = [request EXCEPT ![t] = NoRequest]
  /\ UNCHANGED <<now, poolVars, nCalls, sweep, pools, nPools, mgr_lock,
                 cacheVars, cmVars, statVars>>

\* llm_service.py:103-124 and model_pool.py:195-199: the inference is over,
\* with a result or with an error; the finally clause gives the instance to the
\* pool that the manager now has for its model path, if it has one
return_model_instance(t) ==
  LET path == request[t].model_path
      p == pools[path] IN
  /\ pc[t] = "returned"
  /\ call[t].instance # NoInst
  /\ mgr_lock = NoThread
  /\ IF p # NoPool
     THEN /\ ReturnInstance(t, p, "idle")
          /\ mgr_lock' = IF QueueFull(p) THEN t ELSE NoThread
          /\ request' = [request EXCEPT ![t] = IF QueueFull(p) THEN @ ELSE NoRequest]
     ELSE /\ pc' = [pc EXCEPT ![t] = "idle"]
          /\ call' = [call EXCEPT ![t] = NoCall]
          /\ request' = [request EXCEPT ![t] = NoRequest]
          /\ UNCHANGED <<inst, available_queue, lock, mgr_lock>>
  /\ UNCHANGED <<now, nInst, instances, max_idle_time, create_model_func,
                 total_requests,
                 cache_hits, nCalls, sweep, pools, nPools, cacheVars, cmVars,
                 statVars>>

\* model_pool.py:104: the blocked put goes through; both locks are released
return_model_instance_put(t) ==
  LET p == call[t].pool IN
  /\ pc[t] = "return_put"
  /\ mgr_lock = t
  /\ ~QueueFull(p)
  /\ available_queue' = [available_queue EXCEPT ![p] = Append(@, call[t].instance)]
  /\ call' = [call EXCEPT ![t] = NoCall]
  /\ request' = [request EXCEPT ![t] = NoRequest]
  /\ lock' = [lock EXCEPT ![p] = NoThread]
  /\ mgr_lock' = NoThread
  /\ pc' = [pc EXCEPT ![t] = "idle"]
  /\ UNCHANGED <<now, inst, nInst, instances, max_idle_time,
                 create_model_func, total_requests,
                 cache_hits, nCalls, sweep, pools, nPools, cacheVars, cmVars,
                 statVars>>

\* llm_service.py:138-141 and model_pool.py:240-244
clear_cache ==
  /\ mgr_lock = NoThread
  /\ \E path \in DOMAIN pools : pools[path] # NoPool
  /\ pools' = [path \in DOMAIN pools |-> NoPool]
  /\ UNCHANGED <<now, poolVars, pc, call, nCalls, sweep, nPools, mgr_lock,
                 request, cacheVars, cmVars, statVars>>

\* model_pool.py:207-209: the cleanup thread takes the manager's lock and starts
\* cleanup_idle_instances on the pool
cleanup_worker_start(path) ==
  /\ mgr_lock = NoThread
  /\ sweep.pc = "idle"
  /\ pools[path] # NoPool
  /\ mgr_lock' = SweeperId
  /\ sweep' = [sweep EXCEPT !.pc = "lock", !.pool = pools[path], !.current_time = now]
  /\ UNCHANGED <<now, poolVars, pc, call, nCalls, pools, nPools, request,
                 cacheVars, cmVars, statVars>>

\* model_pool.py:207-209: the sweep is over; the manager's lock is released
cleanup_worker_done ==
  /\ mgr_lock = SweeperId
  /\ sweep.pc = "idle"
  /\ mgr_lock' = NoThread
  /\ UNCHANGED <<now, poolVars, pc, call, nCalls, sweep, pools, nPools, request,
                 cacheVars, cmVars, statVars>>

InitManager ==
  /\ pools = [path \in ModelPaths |-> NoPool]
  /\ mgr_lock = NoThread
  /\ request = [t \in Threads |-> NoRequest]

(***************************************************************************)
(* The request accounting of generate_response in LLMService               *)
(* (llm_service.py:82-136) and in OptimizedLLMService                      *)
(* (optimized_llm_service.py:254-333).  Requests run on threads of their   *)
(* own, and `stats[key] += 1` is a load and a store with nothing that      *)
(* keeps another thread out in between.  What the pool or the cache        *)
(* answers and how the inference ends are inputs.                          *)
(***************************************************************************)
Services == {"LLMService", "OptimizedLLMService"}

NoStats == [total_requests |-> 0, successful_requests |-> 0,
            failed_requests |-> 0, concurrent_requests |-> 0]

NoGenerate == [service |-> "LLMService", pc |-> "idle", reg |-> 0,
               stale |-> FALSE, start_time |-> 0, error |-> ""]

\* the text of the exception raised when no model instance could be had
AcquireError(svc) ==
  IF svc = "LLMService" THEN "Failed to acquire model instance from pool"
  ELSE "model load failed"

\* first half of stats[key] += d: the dictionary and the value are fetched
Load(t, key, to) ==
  /\ gen' = [gen EXCEPT ![t].pc = to,
                        ![t].reg = generation_stats[gen[t].service][key],
                        ![t].stale = FALSE]
  /\ UNCHANGED generation_stats

\* second half of stats[key] += d: the sum is stored in the dictionary that
\* was fetched, which clear_cache may have replaced since
Store(t, key, d, to) ==
  /\ generation_stats' =
       IF gen[t].stale THEN generation_stats
       ELSE [generation_stats EXCEPT ![gen[t].service][key] = gen[t].reg + d]
  /\ gen' = [gen EXCEPT ![t].pc = to, ![t].reg = 0, ![t].stale = FALSE]

\* llm_service.py:82, optimized_llm_service.py:255: the call begins
generate_response_begin(t, svc) ==
  /\ gen[t].pc = "idle"
  /\ nCalls < MaxRequests
  /\ nCalls' = nCalls + 1
  /\ gen' = [gen EXCEPT ![t] = [NoGenerate EXCEPT
                                  !.service = svc, !.pc = "st_total",
                                  !.reg = generation_stats[svc].total_requests]]
  /\ response' = [response EXCEPT ![t] = <<>>]
  /\ UNCHANGED <<now, poolVars, pc, call, sweep, cacheVars, cmVars, mgrVars,
                 generation_stats>>

\* llm_service.py:82, optimized_llm_service.py:255
count_total(t) ==
  /\ gen[t].pc = "st_total"
  /\ Store(t, "total_requests", 1, "ld_concurrent")
  /\ UNCHANGED <<now, poolSide, cacheVars, cmVars, response>>

\* llm_service.py:83, optimized_llm_service.py:256
load_concurrent(t) ==
  /\ gen[t].pc = "ld_concurrent"
  /\ Load(t, "concurrent_requests", "st_concurrent")
  /\ UNCHANGED <<now, poolSide, cacheVars, cmVars, response>>

count_concurrent(t) ==
  /\ gen[t].pc = "st_concurrent"
  /\ Store(t, "concurrent_requests", 1, "acquire")
  /\ UNCHANGED <<now, poolSide, cacheVars, cmVars, response>>

\* llm_service.py:93-101: get_model_instance gave an instance, or None and
\* the exception is raised; optimized_llm_service.py:260-266:
\* get_or_load_model returned, or raised
acquire_result(t, ok) ==
  /\ gen[t].pc = "acquire"
  /\ gen' = [gen EXCEPT ![t].pc = IF ok THEN "inference" ELSE "ld_failed",
                        ![t].start_time = IF ok THEN now ELSE 0,
                        ![t].error = IF ok THEN "" ELSE AcquireError(gen[t].service)]
  /\ UNCHANGED <<now, poolSide, cacheVars, cmVars, generation_stats, response>>

\* llm_service.py:105-111, optimized_llm_service.py:286-292: the awaited
\* inference returned, or raised
inference_result(t, ok) ==
  /\ gen[t].pc = "inference"
  /\ gen' = [gen EXCEPT ![t].pc = IF ok THEN "ld_successful" ELSE "ld_failed",
                        ![t].start_time = 0,
                        ![t].error = IF ok THEN "" ELSE "inference failed"]
  /\ UNCHANGED <<now, poolSide, cacheVars, cmVars, generation_stats, response>>

\* optimized_llm_service.py:286-294: asyncio.wait_for gives up
inference_timeout(t) ==
  /\ gen[t].pc = "inference"
  /\ gen[t].service = "OptimizedLLMService"
  /\ now - gen[t].start_time >= HardTimeout
  /\ gen' = [gen EXCEPT ![t].pc = "ld_failed", ![t].start_time = 0,
                        ![t].error = "Generation timed out after 2 hours"]
  /\ UNCHANGED <<now, poolSide, cacheVars, cmVars, generation_stats, response>>

\* llm_service.py:118, optimized_llm_service.py:304, 402
load_successful(t) ==
  /\ gen[t].pc = "ld_successful"
  /\ Load(t, "successful_requests", "st_successful")
  /\ UNCHANGED <<now, poolSide, cacheVars, cmVars, response>>

count_successful(t) ==
  /\ gen[t].pc = "st_successful"
  /\ Store(t, "successful_requests", 1, "ld_leave")
  /\ UNCHANGED <<now, poolSide, cacheVars, cmVars, response>>

\* llm_service.py:126-127, optimized_llm_service.py:320-322, 405
load_failed(t) ==
  /\ gen[t].pc = "ld_failed"
  /\ Load(t, "failed_requests", "st_failed")
  /\ UNCHANGED <<now, poolSide, cacheVars, cmVars, response>>

count_failed(t) ==
  /\ gen[t].pc = "st_failed"
  /\ Store(t, "failed_requests", 1, "ld_leave")
  /\ UNCHANGED <<now, poolSide, cacheVars, cmVars, response>>

\* llm_service.py:135-136, optimized_llm_service.py:332-333: the finally clause
load_leave(t) ==
  /\ gen[t].pc = "ld_leave"
  /\ Load(t, "concurrent_requests", "st_leave")
  /\ UNCHANGED <<now, poolSide, cacheVars, cmVars, response>>

\* the finally clause is over and the result dictionary goes to the caller
generate_response_end(t) ==
  /\ gen[t].pc = "st_leave"
  /\ generation_stats' =
       IF gen[t].stale THEN generation_stats
       ELSE [generation_stats EXCEPT
               ![gen[t].service].concurrent_requests = gen[t].reg - 1]
  /\ response' = [response EXCEPT
                    ![t] = <<[success |-> gen[t].error = "", error |-> gen[t].error]>>]
  /\ gen' = [gen EXCEPT ![t] = [NoGenerate EXCEPT !.service = gen[t].service]]
  /\ UNCHANGED <<now, poolSide, cacheVars, cmVars>>

\* OptimizedLLMService.clear_cache (optimized_llm_service.py:417-428): the
\* cache is emptied and _generation_stats is a new dictionary; a += that has
\* fetched the old one stores into the old one
optimized_clear_cache ==
  /\ models_lock = NoThread
  /\ models' = <<>>
  /\ generation_stats' = [generation_stats EXCEPT !["OptimizedLLMService"] = NoStats]
  /\ gen' = [t \in Threads |->
               IF gen[t].service = "OptimizedLLMService"
                  /\ gen[t].pc \in {"st_total", "st_concurrent",
                 "st_successful",
                                    "st_failed", "st_leave"}
               THEN [gen[t] EXCEPT !.stale = TRUE]
               ELSE gen[t]]
  /\ UNCHANGED <<now, poolSide, models_lock, loading, evicted, attempts, cmVars,
                 response>>

\* time is seen to pass while an inference is awaited under a timeout
TickInference ==
  /\ \E t \in Threads : gen[t].pc = "inference" /\ gen[t].service = "OptimizedLLMService"
  /\ TickFine

InitStatistics ==
  /\ generation_stats = [svc \in Services |-> NoStats]
  /\ gen = [t \in Threads |-> NoGenerate]
  /\ response = [t \in Threads |-> <<>>]

InitOthers ==
  /\ InitCache
  /\ InitCM
  /\ InitManager
  /\ InitStatistics
  /\ nPools = 1

(***************************************************************************)
(* One ModelPool used directly by caller threads and one sweeping thread.  *)
(***************************************************************************)
InitPool ==
  /\ inst = [i \in InstIds |-> BlankInstance]
  /\ nInst = 0
  /\ instances = [p \in PoolIds |-> <<>>]
  /\ available_queue = [p \in PoolIds |-> <<>>]
  /\ lock = [p \in PoolIds |-> NoThread]
  /\ max_idle_time = [p \in PoolIds |-> PoolMaxIdle]
  /\ create_model_func = [p \in PoolIds |-> "h1"]
  /\ total_requests = [p \in PoolIds |-> 0]
  /\ cache_hits = [p \in PoolIds |-> 0]

Init ==
  /\ now = 0
  /\ InitPool
  /\ pc = [t \in Threads |-> "idle"]
  /\ call = [t \in Threads |-> NoCall]
  /\ nCalls = 0
  /\ sweep = IdleSweep
  /\ InitOthers

get_instance(t) ==
  \/ get_instance_poll(t)
  \/ get_instance_check(t)
  \/ get_instance_put_back(t)
  \/ get_instance_create(t)
  \/ get_instance_created(t)
  \/ get_instance_create_failed(t)

Next ==
  \/ \E t \in Threads : get_instance_call(t, Timeouts)
  \/ \E t \in Threads : get_instance(t)
  \/ \E t \in Threads : return_instance(t)
  \/ \E t \in Threads : return_instance_put(t)
  \/ \E t \in Threads : caller_gives_up(t)
  \/ cleanup_start(ThePool)
  \/ cleanup_idle_instances
  \/ Tick(SecondTicks)

Spec == Init /\ [][Next]_vars

(***************************************************************************)
(* The same pool with callers only: nobody calls cleanup_idle_instances.   *)
(***************************************************************************)
NextCallers ==
  \/ \E t \in Threads : get_instance_call(t, Timeouts)
  \/ \E t \in Threads : get_instance_poll(t)
  \/ \E t \in Threads : get_instance_check(t)
  \/ \E t \in Threads : get_instance_create(t)
  \/ \E t \in Threads : get_instance_created(t)
  \/ \E t \in Threads : get_instance_create_failed(t)
  \/ \E t \in Threads : return_instance(t)
  \/ \E t \in Threads : caller_gives_up(t)
  \/ Tick(SecondTicks)

SpecCallers == Init /\ [][NextCallers]_vars

(***************************************************************************)
(* A pool that stays saturated: max_instances instances exist, all are     *)
(* busy and none is ever returned.  Steps of a running thread take no      *)
(* time and time.sleep(0.1) lasts exactly one tick: the clock moves only   *)
(* when no thread has a step to take.                                      *)
(***************************************************************************)
ShortTimeouts == {3, 4}          \* get_instance timeouts, in ticks

CanStep(t) ==
  LET p == call[t].pool IN
  \/ pc[t] = "poll" /\ now >= call[t].wake
  \/ pc[t] \in {"check", "create"} /\ lock[p] = NoThread
  \/ pc[t] \in {"put_back", "return_put"} /\ ~QueueFull(p)

SweepCanStep ==
  \/ sweep.pc \in {"drain", "drain_get", "refill"}
  \/ sweep.pc = "lock" /\ lock[sweep.pool] = NoThread

TickIdeal ==
  /\ \A t \in Threads : ~CanStep(t)
  /\ ~SweepCanStep
  /\ now < MaxFineTime
  /\ Tick(PollInterval)

InitSaturated ==
  /\ now = 0
  /\ create_model_func = [p \in PoolIds |-> "h1"]
  /\ \E hs \in [1..PoolSize -> Configs] :
       inst = [i \in InstIds |-> IF i <= PoolSize
                                 THEN NewInstance(hs[i], 0,
                 create_model_func[ThePool])
                                 ELSE BlankInstance]
  /\ nInst = PoolSize
  /\ instances = [p \in PoolIds |-> IF p = ThePool THEN [i \in 1..PoolSize |-> i]
                                                  ELSE <<>>]
  /\ available_queue = [p \in PoolIds |-> <<>>]
  /\ lock = [p \in PoolIds |-> NoThread]
  /\ max_idle_time = [p \in PoolIds |-> PoolMaxIdle]
  /\ total_requests = [p \in PoolIds |-> IF p = ThePool THEN PoolSize ELSE 0]
  /\ cache_hits = [p \in PoolIds |-> 0]
  /\ pc = [t \in Threads |-> "idle"]
  /\ call = [t \in Threads |-> NoCall]
  /\ nCalls = 0
  /\ sweep = IdleSweep
  /\ InitOthers

NextSaturated ==
  \/ \E t \in Threads : get_instance_call(t, ShortTimeouts)
  \/ \E t \in Threads : get_instance_poll(t)
  \/ \E t \in Threads : get_instance_create(t)
  \/ \E t \in Threads : caller_gives_up(t)
  \/ cleanup_start(ThePool)
  \/ cleanup_lock
  \/ TickIdeal

SpecSaturated == InitSaturated /\ [][NextSaturated]_vars

(***************************************************************************)
(* The LRU cache used by concurrent callers.                               *)
(***************************************************************************)
NextCache ==
  \/ \E t \in Threads, path \in Paths : get_or_load_model(t, path)
  \/ \E t \in Threads : size_unreadable(t)
  \/ \E t \in Threads : first_attempt_failed(t)
  \/ \E t \in Threads : model_loaded(t)
  \/ \E t \in Threads : model_load_failed(t)
  \/ clear_all
  \/ TickFine

SpecCache == Init /\ [][NextCache]_vars

(***************************************************************************)
(* LLMService: generate_response calls, clear_cache and the manager's      *)
(* cleanup thread.  No pool exists before the first request.               *)
(***************************************************************************)
InitService ==
  /\ now = 0
  /\ InitPool
  /\ pc = [t \in Threads |-> "idle"]
  /\ call = [t \in Threads |-> NoCall]
  /\ nCalls = 0
  /\ sweep = IdleSweep
  /\ InitCache
  /\ InitCM
  /\ InitManager
  /\ InitStatistics
  /\ nPools = 0

NextService ==
  \/ \E t \in Threads, path \in ModelPaths, h \in Configs : generate_response(t, path, h)
  \/ \E t \in Threads : get_instance(t)
  \/ \E t \in Threads : generate_response_failed(t)
  \/ \E t \in Threads : return_model_instance(t)
  \/ \E t \in Threads : return_model_instance_put(t)
  \/ clear_cache
  \/ \E path \in ModelPaths : cleanup_worker_start(path)
  \/ cleanup_lock
  \/ cleanup_worker_done
  \/ Tick(SecondTicks)

SpecService == InitService /\ [][NextService]_vars

(***************************************************************************)
(* The ConcurrencyManager with its submitters, its dispatcher and its      *)
(* executor threads.                                                       *)
(***************************************************************************)
NextCM ==
  \/ \E i \in TaskIds : submit_request(i, DefaultPriority)
  \/ \E i \in TaskIds : submit_put(i)
  \/ \E i \in TaskIds : submit_stats(i)
  \/ \E i \in TaskIds : submit_full(i)
  \/ process_queue_get
  \/ process_queue_stats
  \/ process_task_mark
  \/ process_task_submit
  \/ \E w \in WorkerIds : execute_start(w)
  \/ \E w \in WorkerIds, ok \in BOOLEAN : execute_return(w, ok)
  \/ \E w \in WorkerIds : execute_mark(w)
  \/ \E w \in WorkerIds : execute_stats(w)
  \/ TickObserved

SpecCM == Init /\ [][NextCM]_vars

(***************************************************************************)
(* The ConcurrencyManager under requests of different priorities whose     *)
(* functions all return.                                                   *)
(***************************************************************************)
NextPriority ==
  \/ \E i \in TaskIds, p \in Priorities : submit_request(i, p)
  \/ \E i \in TaskIds : submit_put(i)
  \/ \E i \in TaskIds : submit_stats(i)
  \/ \E i \in TaskIds : submit_full(i)
  \/ process_queue_get
  \/ process_queue_stats
  \/ process_task_mark
  \/ process_task_submit
  \/ \E w \in WorkerIds : execute_start(w)
  \/ \E w \in WorkerIds : execute_return(w, TRUE)
  \/ \E w \in WorkerIds : execute_mark(w)
  \/ \E w \in WorkerIds : execute_stats(w)
  \/ TickObserved

SpecPriority == Init /\ [][NextPriority]_vars

(***************************************************************************)
(* The ConcurrencyManager with a client that waits for results, under as   *)
(* many requests as the request queue holds: no put blocks.                *)
(***************************************************************************)
NextWait ==
  \/ \E i \in 1..QueueMaxsize : submit_request(i, DefaultPriority)
  \/ \E i \in TaskIds : submit_put(i)
  \/ \E i \in TaskIds : submit_stats(i)
  \/ process_queue_get
  \/ process_queue_stats
  \/ process_task_mark
  \/ process_task_submit
  \/ \E w \in WorkerIds : execute_start(w)
  \/ \E w \in WorkerIds, ok \in BOOLEAN : execute_return(w, ok)
  \/ \E w \in WorkerIds : execute_mark(w)
  \/ \E w \in WorkerIds : execute_stats(w)
  \/ \E c \in Waiters, id \in TaskIds, T \in WaitTimeouts : wait_for_result(c, id, T)
  \/ \E c \in Waiters : wait_poll(c)
  \/ TickObserved

SpecWait == Init /\ [][NextWait]_vars

(***************************************************************************)
(* The accounting of generate_response calls of both services, two         *)
(* request threads and clear_cache of the OptimizedLLMService.             *)
(***************************************************************************)
NextAccounting ==
  \/ \E t \in Threads, svc \in Services : generate_response_begin(t, svc)
  \/ \E t \in Threads : count_total(t)
  \/ \E t \in Threads : load_concurrent(t)
  \/ \E t \in Threads : count_concurrent(t)
  \/ \E t \in Threads, ok \in BOOLEAN : acquire_result(t, ok)
  \/ \E t \in Threads, ok \in BOOLEAN : inference_result(t, ok)
  \/ \E t \in Threads : inference_timeout(t)
  \/ \E t \in Threads : load_successful(t)
  \/ \E t \in Threads : count_successful(t)
  \/ \E t \in Threads : load_failed(t)
  \/ \E t \in Threads : count_failed(t)
  \/ \E t \in Threads : load_leave(t)
  \/ \E t \in Threads : generate_response_end(t)
  \/ optimized_clear_cache
  \/ TickInference

SpecAccounting == Init /\ [][NextAccounting]_vars

(***************************************************************************)
(* The ConcurrencyManager under fair scheduling: the dispatcher thread and *)
(* every executor thread keep taking the step they are able to take, and   *)
(* every task function comes to an end.  One client thread submits the    *)
(* requests; shutdown is not called and no client deletes entries.        *)
(***************************************************************************)
\* one client thread: a submit_request call begins once the one before it
\* has returned or raised
client_submits(i) ==
  /\ \A j \in TaskIds : submitter[j].pc \notin {"put", "stats"}
  /\ submit_request(i, DefaultPriority)

NextLive ==
  \/ \E i \in TaskIds : client_submits(i)
  \/ \E i \in TaskIds : submit_put(i)
  \/ \E i \in TaskIds : submit_stats(i)
  \/ process_queue_get
  \/ process_queue_stats
  \/ process_task_mark
  \/ process_task_submit
  \/ \E w \in WorkerIds : execute_start(w)
  \/ \E w \in WorkerIds, ok \in BOOLEAN : execute_return(w, ok)
  \/ \E w \in WorkerIds : execute_mark(w)
  \/ \E w \in WorkerIds : execute_stats(w)

Fairness ==
  /\ WF_vars(process_queue_get)
  /\ WF_vars(process_queue_stats)
  /\ WF_vars(process_task_mark)
  /\ WF_vars(process_task_submit)
  /\ \A w \in WorkerIds :
       /\ WF_vars(execute_start(w))
       /\ WF_vars(\E ok \in BOOLEAN : execute_return(w, ok))
       /\ WF_vars(execute_mark(w))
       /\ WF_vars(execute_stats(w))

SpecLive == Init /\ [][NextLive]_vars /\ Fairness

(***************************************************************************)
(* The ConcurrencyManager with a client that waits for results, under no   *)
(* more requests than may be active at once.                               *)
(***************************************************************************)
NextResult ==
  \/ \E i \in 1..max_concurrent : submit_request(i, DefaultPriority)
  \/ \E i \in TaskIds : submit_put(i)
  \/ \E i \in TaskIds : submit_stats(i)
  \/ process_queue_get
  \/ process_queue_stats
  \/ process_task_mark
  \/ process_task_submit
  \/ \E w \in WorkerIds : execute_start(w)
  \/ \E w \in WorkerIds, ok \in BOOLEAN : execute_return(w, ok)
  \/ \E w \in WorkerIds : execute_mark(w)
  \/ \E w \in WorkerIds : execute_stats(w)
  \/ \E c \in Waiters, id \in TaskIds, T \in WaitTimeouts : wait_for_result(c, id, T)
  \/ \E c \in Waiters : wait_poll(c)
  \/ TickObserved

SpecResult == Init /\ [][NextResult]_vars

(***************************************************************************)
(* Properties of one ModelPool.                                            *)
(***************************************************************************)
\* t holds instance i: get_instance handed it out, return_instance not yet called
Holds(t, i) == pc[t] = "returned" /\ call[t].instance = i

Holders(i) == {t \in Threads : Holds(t, i)}

\* C1: no instance is held by two callers at the same time, and an instance
\* that is held has is_busy = True
C1_Exclusive ==
  \A i \in 1..nInst :
    /\ Cardinality(Holders(i)) <= 1
    /\ Holders(i) # {} => inst[i].is_busy

\* an instance handed out by reuse is held while the other caller is polling
C1_Witness ==
  \E i \in 1..nInst, t, u \in Threads :
    /\ Holds(t, i)
    /\ inst[i].usage_count > 0
    /\ pc[u] = "poll" /\ call[u].wake > 0
    /\ cache_hits[ThePool] > 0

\* C2: len(pool.instances) never exceeds max_instances
C2_Cap == \A p \in DOMAIN instances : Len(instances[p]) <= max_instances(p)

\* the pool is full, a caller was refused a new instance, and an instance has
\* been swept before
C2_Witness ==
  /\ Len(instances[ThePool]) = max_instances(ThePool)
  /\ nInst > max_instances(ThePool)
  /\ \E t \in Threads : pc[t] = "poll" /\ call[t].wake > 0

InGetInstance(t) ==
  pc[t] \in {"poll", "check", "put_back", "create", "creating"}

\* t is in the time.sleep(0.1) of get_instance
Sleeping(t) == pc[t] = "poll" /\ call[t].wake > now

Elapsed(t) == now - call[t].start_time

\* C5: on a pool that stays saturated, a get_instance call is never in
\* progress later than timeout + one polling interval after it began, and what
\* it returns is the timeout failure (None)
C5_TimeoutFidelity ==
  \A t \in Threads :
    /\ InGetInstance(t) => Elapsed(t) <= call[t].timeout + PollInterval
    /\ pc[t] = "returned" => call[t].result = "timeout" /\ call[t].instance = NoInst

\* a call has polled the saturated pool until its timeout and returned None
C5_Witness ==
  \E t \in Threads :
    /\ pc[t] = "returned"
    /\ call[t].result = "timeout"
    /\ \A i \in SeqToSet(instances[ThePool]) : inst[i].is_busy
    /\ Len(instances[ThePool]) = max_instances(ThePool)

PoolFull(p) == Len(instances[p]) = max_instances(p)

NoMatch(p, h) == \A i \in SeqToSet(instances[p]) : inst[i].config_hash # h

\* C9: while the pool holds max_instances instances and none of them has the
\* requested fingerprint, a step of get_instance creates no instance and hands
\* none out, and it returns only the timeout failure, once the timeout has elapsed
C9_FullNoMatch ==
  [][\A t \in Threads :
       (InGetInstance(t) /\ PoolFull(call[t].pool)
          /\ NoMatch(call[t].pool, call[t].config_hash))
       => /\ nInst' = nInst
          /\ pc'[t] = "returned"
               => /\ call'[t].instance = NoInst
                  /\ call'[t].result = "timeout"
                  /\ Elapsed(t) >= call[t].timeout]_vars

(***************************************************************************)
(* Properties of the LRU cache.                                            *)
(***************************************************************************)
\* C3: the number of resident model paths never exceeds max_models
C3_CacheCap == Len(models) <= max_models

\* a load is in progress after an eviction made room for it
C3_Witness ==
  \E t \in Threads :
    /\ loading[t] # NoPath
    /\ evicted[t] # NoPath
    /\ Len(models) = max_models - 1

\* the step in which thread t starts to load path on a miss
StartsLoad(t) == loading[t] = NoPath /\ loading'[t] # NoPath

\* C4: a miss on a cache that holds max_models paths evicts exactly one
\* resident path, one whose last_used is the smallest of all resident paths;
\* every other resident path stays resident
C4_EvictsLru ==
  [][\A t \in Threads :
       (StartsLoad(t) /\ Len(models) = max_models)
       => \E k \in 1..Len(models) :
            /\ models' = RemoveAt(models, k)
            /\ \A j \in 1..Len(models) : models[k].last_used <= models[j].last_used]_vars

\* the evicted path was not the most recently inserted one and a path that
\* stayed resident had been refreshed by a hit
C4_Witness ==
  \E t \in Threads :
    /\ evicted[t] # NoPath
    /\ Len(models) = max_models - 1
    /\ \E k \in 1..Len(models) : models[k].usage_count > 0

(***************************************************************************)
(* Properties of the ConcurrencyManager.                                   *)
(***************************************************************************)
Delivered(r) == r.outcome \in {"completed", "failed"}

\* C6: the first wait_for_result(id) on a terminal task returns its result (or
\* its failure) and deletes the entry; a later wait_for_result(id) by the same
\* client does not return the result again and reports the id as not found
C6_SingleDelivery ==
  \A c \in Waiters : \A j \in 1..Len(returned[c]) :
    Delivered(returned[c][j])
    => /\ active_requests[returned[c][j].id] = "absent"
       /\ \A k \in (j+1)..Len(returned[c]) :
            returned[c][k].id = returned[c][j].id
            => returned[c][k].outcome = "not_found"

Executing == {w \in WorkerIds : worker[w].pc \in {"run", "mark", "stats"}}

\* C10: at every moment at most max_workers submitted tasks are executing
C10_WorkerCap == Cardinality(Executing) <= max_workers

\* every allowed thread is executing a task while another task waits for one
C10_Witness ==
  /\ Cardinality({w \in WorkerIds : worker[w].pc = "run"}) = max_workers
  /\ work_queue # <<>>

(***************************************************************************)
(* Properties of LLMService.                                               *)
(***************************************************************************)
\* the step in which the generate_response call of thread t, which had acquired
\* an instance, returns
ReturnsFromGenerate(t) ==
  /\ pc[t] \in {"returned", "return_put"}
  /\ call[t].instance # NoInst
  /\ pc'[t] = "idle"

\* C7: once a generate_response call that acquired an instance has returned,
\* the instance has is_busy = false, whatever interleaves with the call
C7_BusyCleared ==
  [][\A t \in Threads :
       ReturnsFromGenerate(t) => ~inst'[call[t].instance].is_busy]_vars


Last(seq) == seq[Len(seq)]

\* the step in which executor thread w passes from position a to position b
WorkerStep(w, a, b) == worker[w].pc = a /\ worker'[w].pc = b

\* the step in which the wait_for_result call of client c returns
WaitReturns(c) == waiter[c].pc = "poll" /\ waiter'[c].pc = "idle"

\* C11: a task whose function raised gets status failed when its entry is in the
\* table; a wait_for_result that polls a failed entry before its timeout ends at
\* once with the failure; the task adds exactly 1 to failed_requests and
\* nothing to completed_requests
C11_FailureSurfaces ==
  [][/\ \A w \in WorkerIds :
          /\ (WorkerStep(w, "mark", "stats") /\ ~worker[w].ok
                /\ active_requests[worker[w].task] # "absent")
             => active_requests'[worker[w].task] = "failed"
          /\ (WorkerStep(w, "stats", "idle") /\ ~worker[w].ok)
             => /\ request_stats'.failed_requests = request_stats.failed_requests + 1
                /\ request_stats'.completed_requests = request_stats.completed_requests
     /\ \A c \in Waiters :
          (/\ waiter[c].pc = "poll"
           /\ waiter'[c] # waiter[c]
           /\ active_requests[waiter[c].id] = "failed"
           /\ now - waiter[c].start_time < waiter[c].timeout)
          => /\ WaitReturns(c)
             /\ Last(returned'[c]) = [id |-> waiter[c].id, outcome |-> "failed"]
             /\ Len(returned'[c]) = Len(returned[c]) + 1]_vars

\* the only task raised, the client got the failure and the task was counted once
C11_Witness ==
  /\ nTasks = 1
  /\ \E c \in Waiters : returned[c] = <<[id |-> 1, outcome |-> "failed"]>>
  /\ request_stats.failed_requests = 1
  /\ request_stats.completed_requests = 0
  /\ \A w \in WorkerIds : worker[w].pc \in {"unborn", "idle"}

Terminal == {"completed", "failed"}

\* task id is still ahead of the dispatcher's 'running' mark
NotYetMarked(id) ==
  \/ submitter[id].pc \in {"none", "put", "stats", "rejected"} /\ id \notin SeqToSet(request_queue)
       /\ dispatcher.task # id /\ active_requests[id] = "absent"
       /\ id \notin SeqToSet(work_queue) /\ \A w \in WorkerIds : worker[w].task # id
  \/ id \in SeqToSet(request_queue)
  \/ dispatcher.task = id /\ dispatcher.pc \in {"stats", "mark"}

\* C12: the recorded status of a task only moves forward: an entry appears as
\* running, once, when the dispatcher takes the task; running becomes completed
\* or failed; a terminal status never changes to another status; the only
\* other change is the deletion of the entry
C12_ForwardOnly ==
  [][\A id \in TaskIds :
       LET old == active_requests[id]
           new == active_requests'[id] IN
       new # old =>
         /\ new = "running" => old = "absent" /\ NotYetMarked(id) /\ ~NotYetMarked(id)'
         /\ new \in Terminal => old = "running"
         /\ old \in Terminal => new = "absent"]_vars

\* a task went from no entry to running to failed while a client waits for it
C12_Witness ==
  \E a \in TaskIds :
    /\ active_requests[a] = "failed"
    /\ \E w \in WorkerIds : worker[w].task = a /\ worker[w].pc = "stats"
    /\ \E c \in Waiters : waiter[c].pc = "poll" /\ waiter[c].id = a

Holds_Task(id) ==
  \/ id \in SeqToSet(request_queue)
  \/ dispatcher.task = id
  \/ id \in SeqToSet(work_queue)
  \/ \E w \in WorkerIds : worker[w].task = id
  \/ active_requests[id] # "absent"

\* C13: the request queue never holds more than 2 * max_concurrent tasks; a
\* submit_request is rejected only when the queue was full for queue_timeout;
\* the rejected task is not enqueued and never executed, and total_requests and
\* queued_requests are as they were
C13_QueueFull ==
  [][/\ Len(request_queue') <= QueueMaxsize
     /\ \A i \in TaskIds :
          /\ (submitter[i].pc = "put" /\ submitter'[i].pc = "rejected")
             => /\ Len(request_queue) >= QueueMaxsize
                /\ now - submitter[i].start_time >= queue_timeout
                /\ request_queue' = request_queue
                /\ request_stats'.total_requests = request_stats.total_requests
                /\ request_stats'.queued_requests = request_stats.queued_requests
          /\ submitter[i].pc = "rejected"
             => submitter'[i].pc = "rejected" /\ ~Holds_Task(i)']_vars

\* a request was rejected on the full queue and the queue is full still
C13_Witness ==
  /\ \E i \in TaskIds : submitter[i].pc = "rejected"
  /\ Len(request_queue) = QueueMaxsize
  /\ request_stats.failed_requests = 1

\* C14: a wait_for_result that reaches its timeout ends with the timeout error
\* and leaves no entry for the id; the executor thread that runs the task is
\* not touched by it, and a task whose entry is gone is still counted when it ends
C14_WaitTimeout ==
  [][/\ \A c \in Waiters :
          (WaitReturns(c) /\ now - waiter[c].start_time >= waiter[c].timeout)
          => /\ Last(returned'[c]) = [id |-> waiter[c].id, outcome |-> "timeout"]
             /\ active_requests'[waiter[c].id] = "absent"
             /\ worker' = worker
             /\ work_queue' = work_queue
     /\ \A w \in WorkerIds :
          WorkerStep(w, "stats", "idle")
          => request_stats'.completed_requests + request_stats'.failed_requests
               = request_stats.completed_requests + request_stats.failed_requests + 1]_vars

\* the wait for the only task timed out while the task ran; the task then
\* finished and was counted
C14_Witness ==
  /\ nTasks = 1
  /\ \E c \in Waiters : returned[c] = <<[id |-> 1, outcome |-> "timeout"]>>
  /\ request_stats.completed_requests = 1
  /\ active_requests[1] = "absent"

\* C15: tasks are given to the executor in the order in which their puts on
\* the request queue went through, whatever their priority: the task given is
\* the earliest enqueued one not yet given
C15_Fifo ==
  [][(dispatcher.pc = "submit" /\ dispatcher'.pc = "get")
       => /\ pending # <<>>
          /\ dispatcher.task = Head(pending)
          /\ work_queue' = Append(work_queue, dispatcher.task)]_vars

\* the dispatcher is about to give a task to the executor while a task of a
\* higher priority, enqueued later, waits in the queue
C15_Witness ==
  /\ dispatcher.pc = "submit"
  /\ Len(pending) >= 2
  /\ pending[1] = dispatcher.task
  /\ pending[2] \in SeqToSet(request_queue)
  /\ priority[pending[2]] > priority[pending[1]]
  /\ pending[2] < pending[1]

\* the pools on which something is done for model path: the registered one
\* and those on which a get_instance call made for the path is in progress
PoolsInUse(path) ==
  {pools[path]} \cup
  {call[t].pool : t \in {u \in Threads : request[u].model_path = path /\ InGetInstance(u)}}

\* C16: at any time at most one ModelPool is in use for a model path: every
\* acquisition in progress for the path runs on the pool that is registered
\* for it, also when clear_all_pools interleaves
C16_OnePool ==
  \A path \in ModelPaths : Cardinality(PoolsInUse(path) \ {NoPool}) <= 1

\* C20: an instance that cleanup_idle_instances removes from a pool is not
\* busy and has been idle for longer than the pool's max_idle_time
C20_RemovesOnlyIdle ==
  [][\A p \in PoolIds, i \in InstIds :
       (i \in SeqToSet(instances[p]) /\ i \notin SeqToSet(instances'[p]))
       => /\ ~inst[i].is_busy
          /\ now - inst[i].last_used > max_idle_time[p] * SecondTicks]_vars

\* thread t is in the inference of a generate_response call of the LLMService:
\* it has its instance and has not yet reached the finally clause
InInference(t) ==
  /\ request[t].model_path # NoPath
  /\ pc[t] = "returned"
  /\ call[t].instance # NoInst

\* C18: no generate_response call is still in its inference later than the
\* hard timeout after the inference began (the instance's last_used is the
\* time of its acquisition, right before the inference)
C18_HardTimeout ==
  \A t \in Threads :
    InInference(t) => now - inst[call[t].instance].last_used <= HardTimeout

\* C19: every instance in a pool of the manager was loaded with the
\* parameters of the request it was created for: what its model was loaded
\* with is what its config_hash stands for
C19_OwnParameters ==
  \A path \in ModelPaths :
    pools[path] # NoPool =>
      \A i \in SeqToSet(instances[pools[path]]) : inst[i].model = inst[i].config_hash

\* the step in which thread t stores its count of a failed request
CountsFailure(t) == gen[t].pc = "st_failed" /\ gen'[t].pc = "ld_leave"

\* the step in which the generate_response call of thread t returns
GenerateReturns(t) == gen[t].pc = "st_leave" /\ gen'[t].pc = "idle"

\* C17: a generate_response call that met a failure (no model instance, an
\* error or a timeout of the inference) returns a result with success = false
\* and the error text, and its count of the failure makes failed_requests of
\* its service one more than it was
C17_FailureCounted ==
  [][\A t \in Threads :
       /\ CountsFailure(t)
          => generation_stats'[gen[t].service].failed_requests
               = generation_stats[gen[t].service].failed_requests + 1
       /\ (GenerateReturns(t) /\ gen[t].error # "")
          => response'[t] = <<[success |-> FALSE, error |-> gen[t].error]>>]_vars

\* ---------------------------------------------------------------------
\* C21..C30

SurfacesError(t) ==
  loading[t] # NoPath /\ loading'[t] = NoPath /\ models' = models

\* C21 as stated: an error leaves get_or_load_model only after both loader
\* attempts of the call have failed
C21_ErrorOnlyAfterBoth ==
  [][\A t \in Threads : SurfacesError(t) => attempts'[t] = 2]_vars

\* C21: a miss invokes the loader at most twice, the second time only after
\* the first attempt failed; a second attempt that succeeds stores and returns
\* the instance; an error leaves the call only after both attempts failed or
\* before any attempt was made (the size of the file could not be read)
C21_LoadAttempts ==
  [][\A t \in Threads :
       /\ attempts'[t] <= 2
       /\ attempts'[t] = 2 => attempts[t] \in {1, 2}
       /\ (attempts[t] = 1 /\ attempts'[t] = 2 /\ ~SurfacesError(t))
            => /\ models' = Append(models, OptimizedModelInstance(loading[t], now))
               /\ loading'[t] = NoPath
       /\ SurfacesError(t) => attempts'[t] \in {0, 2}]_vars

\* two calls were made, each invoked the loader twice, and exactly one of them
\* left its model in the cache: one fallback succeeded, the other one failed
C21_Witness ==
  /\ nCalls = 2
  /\ \A t \in Threads : attempts[t] = 2 /\ loading[t] = NoPath
  /\ Len(models) = 1

\* get_instance returns an instance to caller t in this step
HandsOut(t) ==
  InGetInstance(t) /\ pc'[t] = "returned" /\ call'[t].instance # NoInst

\* C22: every instance that get_instance returns is a member of the
\* instances list of its pool at the moment it is returned (an instance the
\* sweep removed is not handed out afterwards)
C22_ReturnedIsMember ==
  [][\A t \in Threads :
       HandsOut(t)
       => call'[t].instance \in SeqToSet(instances'[call[t].pool])]_vars

\* C23: no release blocks: no caller is ever stopped in the put of
\* return_instance on a full available_queue (where it would hold the pool
\* lock and, under return_model_instance, the manager lock)
C23_ReleaseNeverBlocks == \A t \in Threads : pc[t] # "return_put"

\* C24: the queued_requests counter is never negative
C24_QueuedNonNegative == request_stats.queued_requests >= 0

\* the ConcurrencyManager is at rest: no submit_request call is under way,
\* the queue is empty, the dispatcher waits in request_queue.get and the
\* executor has no work item, queued or running
Quiescent ==
  /\ \A i \in TaskIds : submitter[i].pc \notin {"put", "stats"}
  /\ request_queue = <<>>
  /\ dispatcher.pc = "get"
  /\ work_queue = <<>>
  /\ Executing = {}

\* C28: at rest queued_requests and active_requests are 0 and total_requests
\* is the sum of completed_requests and failed_requests
C28_QuiescentCounters ==
  Quiescent
  => /\ request_stats.queued_requests = 0
     /\ request_stats.active_requests = 0
     /\ request_stats.total_requests
          = request_stats.completed_requests + request_stats.failed_requests

\* C30: the entries with status 'running' and the active_requests counter
\* number at most max_workers
C30_RunningCap ==
  /\ Cardinality({i \in TaskIds : active_requests[i] = "running"}) <= max_workers
  /\ request_stats.active_requests <= max_workers

\* the wait_for_result calls for task id that have returned
WaitsReturned(id) ==
  {cj \in Waiters \X (1..MaxWaits) :
     cj[2] <= Len(returned[cj[1]]) /\ returned[cj[1]][cj[2]].id = id}

\* C25: once every task has finished and wait_for_result has been called
\* exactly once for every id that submit_request returned, and every such
\* call has returned, the table of requests is empty
C25_NoEntryLeaks ==
  (/\ Quiescent
   /\ \A c \in Waiters : waiter[c].pc = "idle"
   /\ \A i \in TaskIds :
        submitter[i].pc = "queued" => Cardinality(WaitsReturned(i)) = 1)
  => \A i \in TaskIds : active_requests[i] = "absent"

\* C26: a get_or_load_model call that ends with an error leaves the set of
\* resident paths as it was when the call began
C26_FailureKeepsCache ==
  [][\A t \in Threads :
       SurfacesError(t)
       => ResidentPaths' = ResidentPaths \cup ({evicted[t]} \ {NoPath})]_vars

\* the generate_response calls of service svc that are under way
InProgress(svc) == {t \in Threads : gen[t].service = svc /\ gen[t].pc # "idle"}

\* C27: concurrent_requests of the OptimizedLLMService is never negative;
\* while no generate_response call is under way it is 0 and total_requests is
\* the sum of successful_requests and failed_requests
C27_ConcurrentCount ==
  LET s == generation_stats["OptimizedLLMService"] IN
  /\ s.concurrent_requests >= 0
  /\ InProgress("OptimizedLLMService") = {}
     => /\ s.concurrent_requests = 0
        /\ s.total_requests = s.successful_requests + s.failed_requests

\* C29: under fair scheduling, with task functions that end and without
\* shutdown, every task whose submit_request returned an id is eventually
\* executed and its entry reaches status completed or failed
C29_EventuallyExecuted ==
  \A i \in TaskIds :
    (submitter[i].pc = "queued") ~> (active_requests[i] \in Terminal)

\* more tasks than executor threads were accepted and all of them are done,
\* some completed and some failed
C29_Witness ==
  /\ \A i \in TaskIds : submitter[i].pc = "queued" /\ active_requests[i] \in Terminal
  /\ Cardinality(TaskIds) > max_workers
  /\ \E i \in TaskIds : active_requests[i] = "completed"
  /\ \E i \in TaskIds : active_requests[i] = "failed"
  /\ Quiescent
====
